---- MODULE Spec2Model ----
(***************************************************************************)
(* Website Contact Scraper (src/app.py): one Streamlit script.  Every      *)
(* interaction re-runs the script top to bottom; a click on the "Scrape    *)
(* Contacts" button runs the memoized gateway call scrape_contacts and     *)
(* renders its result.                                                     *)
(*                                                                         *)
(* Strings are sequences of one-character strings, JSON / Python values    *)
(* are tagged records [t, v], UI elements are records [el, cat, v].        *)
(***************************************************************************)
EXTENDS Integers, Sequences, FiniteSets, TLC

\* ------------------------------------------------------------------ bounds
\* Longest list of contact items the modelled service returns.
MaxItems == 2

\* ------------------------------------------------------- Python/JSON values
None == [t |-> "null", v |-> 0]
JStr(s) == [t |-> "str", v |-> s]
JNum(n) == [t |-> "num", v |-> n]
JList(xs) == [t |-> "list", v |-> xs]
JObj(f) == [t |-> "obj", v |-> f]
\* json.dumps(item): a string that is never empty and determined by the item
JDump(x) == [t |-> "dump", v |-> x]
\* a response body that is not JSON at all
Unparseable == [t |-> "unparseable", v |-> 0]
EmptyMap == <<>>

IsObj(x) == x.t = "obj"
IsList(x) == x.t = "list"
IsStr(x) == x.t = "str"

\* Python truth value of a value (bool(x))
Truthy(x) ==
  CASE x.t = "null" -> FALSE
    [] x.t = "str" -> Len(x.v) > 0
    [] x.t = "num" -> x.v # 0
    [] x.t = "list" -> Len(x.v) > 0
    [] x.t = "obj" -> DOMAIN x.v # {}
    [] OTHER -> TRUE

\* d.get(k, dflt) for a mapping d
PyGet(d, k, dflt) == IF k \in DOMAIN d.v THEN d.v[k] ELSE dflt

\* a or b
PyOr(a, b) == IF Truthy(a) THEN a ELSE b

\* s.startswith(p)
StartsWith(s, p) == Len(s) >= Len(p) /\ SubSeq(s, 1, Len(p)) = p

\* ---------------------------------------------------------- string literals
HTTP == <<"h", "t", "t", "p", ":", "/", "/">>
HTTPS == <<"h", "t", "t", "p", "s", ":", "/", "/">>
ERROR == <<"E", "R", "R", "O", "R">>
OKAY == <<"O", "K">>
UnknownApiError == <<"U", "n", "k", "n", "o", "w", "n">>
Chars(n) == [i \in 1..n |-> "s"]

\* ---------------------------------------------------------------- UI output
Elem(el, cat, v) == [el |-> el, cat |-> cat, v |-> v]

\* ------------------------------------------------- scrape_contacts (25-77)
\* line 29: the input is rejected
InvalidInputEmptyOnly(url) == url = <<>>

InvalidInput(url) == url = <<>> \/ ~(StartsWith(url, HTTP) \/ StartsWith(url, HTTPS))

\* lines 34-41: st.secrets["RAPIDAPI_KEY"]; the error message of the except
\* clause taken, or "" when the key is resolved
SecretsErrorNever(sec) == ""

SecretsError(sec) ==
  IF sec = "ok" THEN ""
  ELSE IF sec = "no_key" THEN "API Key not found"
  ELSE "Secrets Error"

\* outcomes of the function body
Returned(val, n) == [raised |-> FALSE, value |-> val, msgs |-> <<>>, req |-> n]
Errored(cat, v, n) == [raised |-> FALSE, value |-> None, msgs |-> <<Elem("error", cat, v)>>, req |-> n]
Raised(n) == [raised |-> TRUE, value |-> None, msgs |-> <<>>, req |-> n]

\* lines 52-77: the request has been issued and r is what comes back
HandleResponse(r) ==
  IF r.kind \in {"connection", "connect_timeout"} THEN Errored("Error Connecting", None, 1)
  ELSE IF r.kind = "read_timeout" THEN Errored("Timeout Error", None, 1)
  ELSE IF r.kind = "redirects" THEN Errored("Request Error", None, 1)
  ELSE IF r.status >= 400 /\ r.status < 600 THEN Errored("HTTP Error", JNum(r.status), 1)
  ELSE IF r.body.t = "unparseable" THEN Errored("Request Error", None, 1)
  ELSE IF ~IsObj(r.body) THEN Raised(1)
  ELSE IF PyGet(r.body, "status", None) = JStr(ERROR) \/ "error" \in DOMAIN r.body.v
    THEN LET e == PyGet(r.body, "error", JObj(EmptyMap))
         IN IF ~IsObj(e) THEN Raised(1)
            ELSE Errored("API Error", PyGet(e, "message", JStr(UnknownApiError)), 1)
  ELSE Returned(PyGet(r.body, "data", r.body), 1)

scrape_contacts(url, sec, r) ==
  IF InvalidInput(url) THEN Errored("Validation", None, 0)
  ELSE IF SecretsError(sec) # "" THEN Errored(SecretsError(sec), None, 0)
  ELSE HandleResponse(r)

\* ------------------------------------------------------- rendering (91-132)
\* line 107
display_val(item) == PyOr(PyOr(PyGet(item, "url", None), PyGet(item, "value", None)), JDump(item))

\* lines 101-108: one st.code per string or mapping item, nothing otherwise
RECURSIVE ItemElemsStrOnly(_, _)
ItemElemsStrOnly(title, xs) ==
  IF xs = <<>> THEN <<>>
  ELSE (IF IsStr(Head(xs)) THEN <<Elem("code", title, Head(xs))>> ELSE <<>>)
       \o ItemElemsStrOnly(title, Tail(xs))

RECURSIVE ItemElems(_, _)
ItemElems(title, xs) ==
  IF xs = <<>> THEN <<>>
  ELSE (IF IsStr(Head(xs)) THEN <<Elem("code", title, Head(xs))>>
        ELSE IF IsObj(Head(xs)) THEN <<Elem("code", title, display_val(Head(xs)))>>
        ELSE <<>>)
       \o ItemElems(title, Tail(xs))

\* lines 98-111
display_list_data(title, data_list) ==
  IF Truthy(data_list) /\ IsList(data_list)
    THEN <<Elem("markdown", title, JNum(Len(data_list.v)))>>
         \o ItemElems(title, data_list.v)
         \o <<Elem("divider", title, None)>>
    ELSE <<Elem("info", title, None)>>

\* lines 114, 118, 122: result_data.get(k1) or result_data.get(k2)
SelectFirstPresent(result, k1, k2) ==
  IF k1 \in DOMAIN result.v THEN result.v[k1] ELSE PyGet(result, k2, None)

Select(result, k1, k2) == PyOr(PyGet(result, k1, None), PyGet(result, k2, None))

KnownKeys == {"emails", "email", "phoneNumbers", "phone", "socialLinks", "social_media"}

\* lines 126-129
other_fields(result) == [k \in (DOMAIN result.v) \ KnownKeys |-> result.v[k]]

OtherElems(result) ==
  IF DOMAIN other_fields(result) # {}
    THEN <<Elem("subheader", "Other Data Fields", None), Elem("json", "", JObj(other_fields(result)))>>
    ELSE <<>>

\* lines 91-132: what the script shows for result_data, and whether it raised
Render(result_data) ==
  IF ~Truthy(result_data)
    THEN [els |-> <<Elem("warning", "", None)>>, raised |-> FALSE]
  ELSE IF ~IsObj(result_data)
    THEN [els |-> <<Elem("success", "", None), Elem("subheader", "Extracted Details", None)>>,
          raised |-> TRUE]
  ELSE [els |-> <<Elem("success", "", None), Elem("subheader", "Extracted Details", None)>>
                \o display_list_data("Emails", Select(result_data, "emails", "email"))
                \o display_list_data("Phone Numbers", Select(result_data, "phoneNumbers", "phone"))
                \o display_list_data("Social Media Links", Select(result_data, "socialLinks", "social_media"))
                \o OtherElems(result_data),
        raised |-> FALSE]

\* ------------------------------------------------ st.cache_data (line 24)
NoEntry == [cached |-> FALSE, value |-> None, msgs |-> <<>>]

\* a hit replays the stored return value and the elements the function
\* emitted; a miss runs the function body
cache_data(entry, fresh) ==
  IF entry.cached
    THEN [raised |-> FALSE, value |-> entry.value, msgs |-> entry.msgs, req |-> 0]
    ELSE fresh

\* every return value is stored, None included; a raised exception is not
Store(entry, call) ==
  IF ~entry.cached /\ ~call.raised
    THEN [cached |-> TRUE, value |-> call.value, msgs |-> call.msgs]
    ELSE entry

\* ------------------------------------------------------------- input sets
Q_EMPTY == <<>>
Q_BARE == <<"h", "t", "t", "p">>
Q_HTTP == HTTP \o <<"a">>
Q_HTTPS == HTTPS \o <<"b">>
Queries == {Q_EMPTY, Q_BARE, Q_HTTP, Q_HTTPS}
RenderQueries == {Q_EMPTY, Q_HTTPS}

SecretStates == {"ok", "no_key", "unreadable"}

ItemS == JStr(<<"a">>)
ItemB == JStr(<<"b">>)
ItemD == JObj("url" :> JStr(<<"u">>))
ItemN == JNum(7)
ItemKinds == {ItemS, ItemD, ItemN}
Lists(n) == {JList(xs) : xs \in UNION {[1..k -> ItemKinds] : k \in 0..n}}

NoResponse == [kind |-> "none", status |-> 0, body |-> None]
Failure(kind) == [kind |-> kind, status |-> 0, body |-> None]
Http(status, body) == [kind |-> "response", status |-> status, body |-> body]

Bodies ==
  { Unparseable, None, JList(<<>>), JObj(EmptyMap),
    JObj("error" :> JStr(<<"X">>)),
    JObj("error" :> JObj("message" :> JStr(<<"m">>))),
    JObj("error" :> JObj(EmptyMap)),
    JObj("status" :> JStr(ERROR)),
    JObj("status" :> JStr(OKAY) @@ "emails" :> JList(<<ItemS>>)),
    JObj("data" :> JObj(EmptyMap)),
    JObj("data" :> JObj("emails" :> JList(<<ItemS>>))),
    JObj("data" :> JList(<<ItemN>>)),
    JObj("data" :> None),
    JObj("emails" :> JList(<<ItemS>>) @@ "phone" :> JList(<<ItemB>>)) }

Responses ==
  { Failure(k) : k \in {"connection", "connect_timeout", "read_timeout", "redirects"} }
  \cup { Http(404, Unparseable), Http(503, JObj(EmptyMap)) }
  \cup { Http(200, b) : b \in Bodies }

Absent == [t |-> "absent", v |-> 0]
Field(k, v) == IF v = Absent THEN EmptyMap ELSE k :> v
FirstValues == Lists(MaxItems) \cup {JStr(<<"a">>), None, Absent}
SecondValues == {Absent, JList(<<>>), JList(<<ItemB>>), JList(<<ItemB, ItemD>>)}
PairBodies(k1, k2) == {JObj(Field(k1, v1) @@ Field(k2, v2)) : v1 \in FirstValues, v2 \in SecondValues}

Page(k, n) == JObj("url" :> JStr(<<"u">>) @@ k :> JStr(Chars(n)))
PageBodies ==
  { JObj("emails" :> JList(<<ItemS>>) @@ "pages" :> JList(<<Page("snippet", n)>>)) : n \in {0, 300, 301} }
  \cup { JObj("results" :> JList(<<Page("snippet", 301), Page("text", 301)>>)) }

RenderBodies ==
  PairBodies("emails", "email") \cup PairBodies("phoneNumbers", "phone")
  \cup PairBodies("socialLinks", "social_media") \cup PageBodies
  \cup { JObj("data" :> JObj("emails" :> JList(<<ItemS>>)) @@ "emails" :> JList(<<ItemS, ItemS>>)) }

RenderResponses == { Http(200, b) : b \in RenderBodies }

\* ------------------------------------------------------------------ state
VARIABLES
  website_url,  \* content of the text input (line 80)
  secrets,      \* state of the secret store
  cache,        \* st.cache_data store of scrape_contacts, per argument
  outcome,      \* last script run: "idle", "done" or "exception"
  ui,           \* elements the last script run showed, in order
  requests,     \* HTTP requests issued by the last script run
  response,     \* what the request of the last run got back
  ret,          \* how the scrape_contacts call of the last run ended
  hist,         \* how the first call for each argument ended
  repeat        \* the last run called with an argument called before

vars == <<website_url, secrets, cache, outcome, ui, requests, response, ret, hist, repeat>>

NoCall == [called |-> FALSE, raised |-> FALSE, value |-> None]

Init ==
  /\ website_url = Q_EMPTY
  /\ secrets \in SecretStates
  /\ cache = [q \in Queries |-> NoEntry]
  /\ outcome = "idle"
  /\ ui = <<>>
  /\ requests = 0
  /\ response = NoResponse
  /\ ret = NoCall
  /\ hist = [q \in Queries |-> NoCall]
  /\ repeat = FALSE

InitRender == Init /\ secrets = "ok"

\* the user edits the text input: the script re-runs with the button unset
EditInput(q) ==
  /\ q # website_url
  /\ website_url' = q
  /\ outcome' = "idle"
  /\ ui' = <<>>
  /\ requests' = 0
  /\ response' = NoResponse
  /\ ret' = NoCall
  /\ repeat' = FALSE
  /\ UNCHANGED <<secrets, cache, hist>>

\* the user clicks the button (lines 87-132); r is what the service would
\* answer if it is asked
ClickScrape(r) ==
  LET q == website_url
      call == cache_data(cache[q], scrape_contacts(q, secrets, r))
      rend == IF call.raised THEN [els |-> <<>>, raised |-> TRUE] ELSE Render(call.value)
      thisCall == [called |-> TRUE, raised |-> call.raised, value |-> call.value]
  IN /\ cache' = [cache EXCEPT ![q] = Store(cache[q], call)]
     /\ ui' = call.msgs \o rend.els
              \o (IF rend.raised THEN <<Elem("exception", "", None)>> ELSE <<>>)
     /\ outcome' = IF rend.raised THEN "exception" ELSE "done"
     /\ requests' = call.req
     /\ response' = IF call.req = 1 THEN r ELSE NoResponse
     /\ ret' = thisCall
     /\ hist' = IF hist[q].called THEN hist ELSE [hist EXCEPT ![q] = thisCall]
     /\ repeat' = hist[q].called
     /\ UNCHANGED <<website_url, secrets>>

Next ==
  \/ \E q \in Queries : EditInput(q)
  \/ \E r \in Responses : ClickScrape(r)

Spec == Init /\ [][Next]_vars

NextRender ==
  \/ \E q \in RenderQueries : EditInput(q)
  \/ \E r \in RenderResponses : ClickScrape(r)

RenderSpec == InitRender /\ [][NextRender]_vars

\* ------------------------------------------------------ observation helpers
Has(el, cat) == \E i \in DOMAIN ui : ui[i].el = el /\ ui[i].cat = cat
HasError == \E i \in DOMAIN ui : ui[i].el = "error"
Clicked == outcome # "idle"
Success == outcome = "done" /\ Has("success", "")
Failed == outcome = "done" /\ Has("warning", "")
LacksScheme(url) == ~(StartsWith(url, HTTP) \/ StartsWith(url, HTTPS))
TypeOK == /\ website_url \in Queries
          /\ secrets \in SecretStates
          /\ outcome \in {"idle", "done", "exception"}
          /\ requests \in {0, 1}
          /\ repeat \in BOOLEAN

\* ------------------------------------------------------------ properties
Is2xx(r) == r.kind = "response" /\ r.status >= 200 /\ r.status < 300
Result == ret.value
Returns == Clicked /\ ~ret.raised

\* the display values of the st.code elements shown for a category
CodesOf(title) ==
  LET shown == SelectSeq(ui, LAMBDA e : e.el = "code" /\ e.cat = title)
  IN [i \in 1..Len(shown) |-> shown[i].v]

\* what a list shows: its string items and the display value of its mappings
ShownOf(xs) ==
  LET keep == SelectSeq(xs, LAMBDA x : IsStr(x) \/ IsObj(x))
  IN [i \in 1..Len(keep) |-> IF IsStr(keep[i]) THEN keep[i] ELSE display_val(keep[i])]

Categories ==
  { <<"Emails", "emails", "email">>,
    <<"Phone Numbers", "phoneNumbers", "phone">>,
    <<"Social Media Links", "socialLinks", "social_media">> }

\* the section of a category shows exactly the list chosen, or "none found"
SectionShows(title, chosen) ==
  IF Truthy(chosen) /\ IsList(chosen)
    THEN /\ CodesOf(title) = ShownOf(chosen.v)
         /\ Has("markdown", title)
         /\ ~Has("info", title)
    ELSE /\ Has("info", title)
         /\ CodesOf(title) = <<>>

\* C1: a 2xx response whose parsed body is {"error": "X"}, X a plain string,
\* ends the run as Failed with an 'API Error' message and a call that
\* returned no result; nothing else (such as an exception) happens.
C1_ErrorStringIsRemoteApiError ==
  ( /\ Clicked
    /\ requests = 1
    /\ Is2xx(response)
    /\ IsObj(response.body)
    /\ DOMAIN response.body.v = {"error"}
    /\ IsStr(response.body.v["error"]) )
  => ( /\ Failed
       /\ Has("error", "API Error")
       /\ ~ret.raised
       /\ Result = None )

\* C2: a run that calls scrape_contacts with an input string it was called
\* with before issues no request and ends as the first call for it ended.
C2_CacheHitEquivalence ==
  (Clicked /\ repeat)
  => ( /\ requests = 0
       /\ ret = hist[website_url] )

\* C3: a submit of an empty input, or of an input that starts with neither
\* http:// nor https://, shows the validation error, issues no HTTP request
\* and ends Failed.
C3_InvalidInputNoRequest ==
  (Clicked /\ (website_url = <<>> \/ LacksScheme(website_url)))
  => ( /\ Has("error", "Validation")
       /\ requests = 0
       /\ response = NoResponse
       /\ Failed )

C3_Witness ==
  /\ Clicked
  /\ secrets = "ok"
  /\ website_url # <<>>
  /\ LacksScheme(website_url)
  /\ hist[Q_EMPTY].called
  /\ Has("error", "Validation")

\* C4: while the API key cannot be resolved no run issues an HTTP request,
\* every submit ends Failed, and a submit whose input passes validation shows
\* the configuration error.
C4_MissingCredentialsNoRequest ==
  secrets # "ok"
  => ( /\ requests = 0
       /\ response = NoResponse
       /\ Clicked => ( /\ Failed
                       /\ Result = None
                       /\ ~LacksScheme(website_url)
                          => Has("error", IF secrets = "no_key" THEN "API Key not found"
                                          ELSE "Secrets Error") ) )

C4_Witness ==
  /\ secrets = "no_key"
  /\ Clicked
  /\ StartsWith(website_url, HTTPS)
  /\ Has("error", "API Key not found")
  /\ requests = 0

\* C5 as stated: whenever the result of a successful gateway call has an
\* `emails` list of length N, N email entries are shown and no "none found"
\* message for emails.
HasEmailsList == Returns /\ IsObj(Result) /\ "emails" \in DOMAIN Result.v /\ IsList(Result.v["emails"])

C5_EveryEmailsListRendered ==
  HasEmailsList
  => ( /\ Len(CodesOf("Emails")) = Len(Result.v["emails"].v)
       /\ ~Has("info", "Emails") )

\* C5 amended: when the result of a successful gateway call has an `emails`
\* list of length N >= 1 whose items are all strings or mappings, exactly N
\* email entries are shown and no "none found" message for emails.
C5_NonEmptyEmailsListRendered ==
  ( /\ HasEmailsList
    /\ ~LacksScheme(website_url)
    /\ Len(Result.v["emails"].v) >= 1
    /\ \A i \in DOMAIN Result.v["emails"].v :
         IsStr(Result.v["emails"].v[i]) \/ IsObj(Result.v["emails"].v[i]) )
  => ( /\ outcome = "done"
       /\ Len(CodesOf("Emails")) = Len(Result.v["emails"].v)
       /\ Has("markdown", "Emails")
       /\ ~Has("info", "Emails") )

C5_Witness ==
  /\ HasEmailsList
  /\ Len(Result.v["emails"].v) >= 2
  /\ \E i \in DOMAIN Result.v["emails"].v : IsObj(Result.v["emails"].v[i])
  /\ \A i \in DOMAIN Result.v["emails"].v :
       IsStr(Result.v["emails"].v[i]) \/ IsObj(Result.v["emails"].v[i])
  /\ Len(CodesOf("Emails")) = Len(Result.v["emails"].v)

\* C6 as stated: each category shows the value of the first key PRESENT in
\* the result among its alternates, and "none found" when none is present or
\* that value is empty.
C6_FirstPresentKeyUsed ==
  (Returns /\ IsObj(Result) /\ Truthy(Result))
  => \A c \in Categories : SectionShows(c[1], SelectFirstPresent(Result, c[2], c[3]))

\* C6 amended: each category shows the first NON-EMPTY value among its
\* alternates in order (emails then email; phoneNumbers then phone;
\* socialLinks then social_media), and "none found" when no alternate has a
\* non-empty value or the value chosen is not a list.
C6_FirstNonEmptyValueUsed ==
  (Returns /\ IsObj(Result) /\ Truthy(Result))
  => \A c \in Categories :
       LET first == PyGet(Result, c[2], None)
           second == PyGet(Result, c[3], None)
       IN SectionShows(c[1], IF Truthy(first) THEN first ELSE second)

C6_Witness ==
  /\ Success
  /\ IsObj(Result)
  /\ "emails" \notin DOMAIN Result.v
  /\ "email" \in DOMAIN Result.v
  /\ IsList(Result.v["email"])
  /\ Len(Result.v["email"].v) >= 1
  /\ CodesOf("Emails") = ShownOf(Result.v["email"].v)

\* C7: every submit ends in Success or in Failed; no error escapes the API
\* call or the renderer.
C7_NoErrorEscapes ==
  Clicked => (outcome = "done" /\ (Success \/ Failed))

\* C8: every snippet of a `pages`/`results` entry is shown as its first 300
\* characters followed by an ellipsis marker when it is longer than 300
\* characters, and verbatim otherwise.
Ellipsis == <<".", ".", ".">>
ShownJson == SelectSeq(ui, LAMBDA e : e.el = "json")

C8_SnippetTruncated ==
  (Success /\ IsObj(Result))
  => \A k \in {"pages", "results"} \cap DOMAIN Result.v :
       IsList(Result.v[k]) =>
         \A i \in DOMAIN Result.v[k].v :
           LET entry == Result.v[k].v[i]
           IN (IsObj(entry) /\ "snippet" \in DOMAIN entry.v /\ IsStr(entry.v["snippet"]))
              => LET s == entry.v["snippet"].v
                     shown == ShownJson[1].v.v[k].v[i].v["snippet"].v
                 IN shown = IF Len(s) > 300 THEN SubSeq(s, 1, 300) \o Ellipsis ELSE s

\* C9: a 2xx response whose body is a mapping without `error` and without
\* status ERROR makes the gateway call return the mapping (or its `data`
\* value) and the run end in Success; a run ends Failed only when the gateway
\* call failed.
C9_WellFormedBodySucceeds ==
  /\ ( /\ Clicked
       /\ requests = 1
       /\ Is2xx(response)
       /\ IsObj(response.body)
       /\ "error" \notin DOMAIN response.body.v
       /\ PyGet(response.body, "status", None) # JStr(ERROR)
       /\ IsObj(PyGet(response.body, "data", response.body)) )
     => ( /\ ~ret.raised
          /\ Result = PyGet(response.body, "data", response.body)
          /\ Success )
  /\ Failed => HasError

\* C10: every cached entry is the result of a successful gateway call, and a
\* submit of a query whose earlier call failed makes a new attempt.
C10_CacheHoldsOnlySuccesses ==
  /\ \A q \in Queries : cache[q].cached => (cache[q].value # None /\ cache[q].msgs = <<>>)
  /\ ( /\ Clicked
       /\ repeat
       /\ secrets = "ok"
       /\ ~LacksScheme(website_url)
       /\ hist[website_url].value = None )
     => requests = 1

====
